---- MODULE Spec2Model ----
(***************************************************************************)
(* AISH (AI Shell): the pseudo-terminal session multiplexer.               *)
(*                                                                         *)
(* The model follows main() of src/src/aish.c: aish_init, aish_spawn_bash, *)
(* aish_run (raw mode, the select() loop, teardown) and aish_cleanup,      *)
(* together with the terminal controller of src/src/terminal.c, the        *)
(* prompt of src/src/prompt.c and the chat submission of src/src/chat.c.   *)
(* System calls that can fail (tcgetattr, tcsetattr, select, read, write,  *)
(* waitpid, forkpty, fcntl) and the translation service are the            *)
(* environment: their outcome is chosen nondeterministically.              *)
(***************************************************************************)
EXTENDS Integers, Sequences, FiniteSets, TLC

(***************************************************************************)
(* Bounds of the model.                                                    *)
(***************************************************************************)

\* INPUT_BUFFER_SIZE of aish.c (1024 there), scaled down so that the line
\* buffer fills up after INPUT_BUFFER_SIZE - 1 keystrokes.
INPUT_BUFFER_SIZE == 3

\* Largest number of keystrokes the typed-then-erased tracker counts, and
\* the longest line line_net follows: more than the line buffer holds.
MaxTyped == INPUT_BUFFER_SIZE + 1

\* The number of calls the terminal-controller scenario makes.
MaxOps == 4

(***************************************************************************)
(* Program constants.                                                      *)
(***************************************************************************)

TAB_KEY == 9
LF == 10
CR == 13
BS == 8
DEL == 127
NUL == 0
CharA == 97
CharB == 98

EXIT_SUCCESS == 0
EXIT_FAILURE == 1

STDIN_FILENO == 0

\* The pty master descriptor forkpty() hands back, and its "not open" value.
MasterFd == 3
NoFd == -1

MODE_BASH == "MODE_BASH"
MODE_CHAT == "MODE_CHAT"

\* A cell of the stack array input_buffer that was never written.
Garbage == -1

\* The bytes a keystroke can deliver.
Bytes == {TAB_KEY, LF, CR, BS, DEL, CharA, CharB}

IsLineTerm(c) == c = CR \/ c = LF
IsBackspace(c) == c = DEL \/ c = BS
IsRegular(c) == ~IsLineTerm(c) /\ ~IsBackspace(c)

(***************************************************************************)
(* struct termios: the flag words as sets of flag names, and c_cc[VMIN],   *)
(* c_cc[VTIME].  CS8 is the two-bit character-size field with both bits    *)
(* set (CS7 has only the high one).                                        *)
(***************************************************************************)

LFlagsCleared == {"ECHO", "ICANON", "ISIG", "IEXTEN"}
IFlagsCleared == {"IXON", "ICRNL", "BRKINT", "INPCK", "ISTRIP"}
OFlagsCleared == {"OPOST"}
CS8 == {"CSIZE_LO", "CSIZE_HI"}

Termios(i, o, c, l, vmin, vtime) ==
    [c_iflag |-> i, c_oflag |-> o, c_cflag |-> c, c_lflag |-> l,
     vmin |-> vmin, vtime |-> vtime]

\* memset(state, 0, sizeof(AishState)) leaves original_termios all zero.
ZeroTermios == Termios({}, {}, {}, {}, 0, 0)

\* Terminal configurations the program can be started under.
CookedTermios ==
    Termios({"ICRNL", "IXON", "BRKINT"}, {"OPOST", "ONLCR"},
            {"CSIZE_LO", "CSIZE_HI", "CREAD"},
            {"ECHO", "ICANON", "ISIG", "IEXTEN", "ECHOE"}, 1, 0)
SevenBitTermios ==
    Termios({"ISTRIP", "INPCK", "IGNPAR"}, {"OPOST"},
            {"CSIZE_HI", "PARENB"},
            {"ECHO", "ICANON", "ISIG"}, 1, 0)

InitialTermios == {CookedTermios, SevenBitTermios}

\* The modified copy terminal_enable_raw_mode derives from the saved one.
RawOf(t) ==
    Termios(t.c_iflag \ IFlagsCleared,
            t.c_oflag \ OFlagsCleared,
            t.c_cflag \cup CS8,
            t.c_lflag \ LFlagsCleared,
            0, 1)

(***************************************************************************)
(* TerminalState and the terminal controller (terminal.c).  The operators  *)
(* take the TerminalState, the configuration of the real terminal and the  *)
(* outcomes of the system calls, and give the state afterwards.            *)
(***************************************************************************)

\* TerminalState after terminal_init.
terminal_init ==
    [raw_mode_enabled |-> FALSE,
     current_mode |-> MODE_BASH,
     original_termios |-> ZeroTermios,
     input_buffer_allocated |-> TRUE]

\* TerminalState after memset and before terminal_init.
ZeroTerminalState ==
    [raw_mode_enabled |-> FALSE,
     current_mode |-> MODE_BASH,
     original_termios |-> ZeroTermios,
     input_buffer_allocated |-> FALSE]

terminal_enable_raw_mode_FlagBeforeApply(t, cfg, getOk, setOk) ==
    IF ~getOk
    THEN [ret |-> FALSE, term |-> t, tty |-> cfg]
    ELSE [ret |-> setOk,
          term |-> [t EXCEPT !.original_termios = cfg,
                             !.raw_mode_enabled = TRUE],
          tty |-> IF setOk THEN RawOf(cfg) ELSE cfg]

terminal_enable_raw_mode_SavesRaw(t, cfg, getOk, setOk) ==
    IF ~getOk
    THEN [ret |-> FALSE, term |-> t, tty |-> cfg]
    ELSE IF ~setOk
         THEN [ret |-> FALSE,
               term |-> [t EXCEPT !.original_termios = RawOf(cfg)],
               tty |-> cfg]
         ELSE [ret |-> TRUE,
               term |-> [t EXCEPT !.original_termios = RawOf(cfg),
                                  !.raw_mode_enabled = TRUE],
               tty |-> RawOf(cfg)]

\* terminal_enable_raw_mode: tcgetattr into original_termios, derive the raw
\* copy, tcsetattr it, set raw_mode_enabled.
terminal_enable_raw_mode(t, cfg, getOk, setOk) ==
    IF ~getOk
    THEN [ret |-> FALSE, term |-> t, tty |-> cfg]
    ELSE IF ~setOk
         THEN [ret |-> FALSE,
               term |-> [t EXCEPT !.original_termios = cfg],
               tty |-> cfg]
         ELSE [ret |-> TRUE,
               term |-> [t EXCEPT !.original_termios = cfg,
                                  !.raw_mode_enabled = TRUE],
               tty |-> RawOf(cfg)]

terminal_disable_raw_mode_KeepsFlag(t, cfg, setOk) ==
    IF ~t.raw_mode_enabled
    THEN [term |-> t, tty |-> cfg, calls |-> 0, applied |-> FALSE]
    ELSE [term |-> t,
          tty |-> IF setOk THEN t.original_termios ELSE cfg,
          calls |-> 1,
          applied |-> setOk]

terminal_disable_raw_mode_KeepsFlagOnFailure(t, cfg, setOk) ==
    IF ~t.raw_mode_enabled
    THEN [term |-> t, tty |-> cfg, calls |-> 0, applied |-> FALSE]
    ELSE [term |-> [t EXCEPT !.raw_mode_enabled = ~setOk],
          tty |-> IF setOk THEN t.original_termios ELSE cfg,
          calls |-> 1,
          applied |-> setOk]

terminal_disable_raw_mode_NoGuard(t, cfg, setOk) ==
    [term |-> [t EXCEPT !.raw_mode_enabled = FALSE],
     tty |-> IF setOk THEN t.original_termios ELSE cfg,
     calls |-> 1,
     applied |-> setOk]

\* terminal_disable_raw_mode: nothing unless raw_mode_enabled; otherwise one
\* tcsetattr of original_termios (calls = 1, applied when it succeeded) and
\* raw_mode_enabled cleared whether or not it succeeded.
terminal_disable_raw_mode(t, cfg, setOk) ==
    IF ~t.raw_mode_enabled
    THEN [term |-> t, tty |-> cfg, calls |-> 0, applied |-> FALSE]
    ELSE [term |-> [t EXCEPT !.raw_mode_enabled = FALSE],
          tty |-> IF setOk THEN t.original_termios ELSE cfg,
          calls |-> 1,
          applied |-> setOk]

\* terminal_cleanup: disable raw mode if it is enabled, free the buffer.
terminal_cleanup(t, cfg, setOk) ==
    LET d == IF t.raw_mode_enabled
             THEN terminal_disable_raw_mode(t, cfg, setOk)
             ELSE [term |-> t, tty |-> cfg, calls |-> 0, applied |-> FALSE]
    IN  [d EXCEPT !.term = [d.term EXCEPT !.input_buffer_allocated = FALSE]]

FlipMode(m) == IF m = MODE_BASH THEN MODE_CHAT ELSE MODE_BASH

terminal_process_key_OneWay(t, key, pos) ==
    IF key = TAB_KEY /\ (pos = 0 \/ t.current_mode = MODE_CHAT)
    THEN [toggled |-> TRUE, term |-> [t EXCEPT !.current_mode = MODE_CHAT]]
    ELSE [toggled |-> FALSE, term |-> t]

terminal_process_key_StartOfLineOnly(t, key, pos) ==
    IF key = TAB_KEY /\ pos = 0
    THEN [toggled |-> TRUE,
          term |-> [t EXCEPT !.current_mode = FlipMode(t.current_mode)]]
    ELSE [toggled |-> FALSE, term |-> t]

\* terminal_process_key: Tab at input_pos 0, or any Tab in chat mode, flips
\* the mode and returns true.
terminal_process_key(t, key, pos) ==
    IF key = TAB_KEY /\ (pos = 0 \/ t.current_mode = MODE_CHAT)
    THEN [toggled |-> TRUE,
          term |-> [t EXCEPT !.current_mode = FlipMode(t.current_mode)]]
    ELSE [toggled |-> FALSE, term |-> t]

terminal_get_mode(t) == t.current_mode

(***************************************************************************)
(* The line buffer input_buffer[INPUT_BUFFER_SIZE] of aish_run and the     *)
(* keypress handlers of aish.c.                                            *)
(***************************************************************************)

BufferIndex == 0 .. (INPUT_BUFFER_SIZE - 1)

\* char input_buffer[INPUT_BUFFER_SIZE]: an uninitialised stack array.
FreshBuffer == [i \in BufferIndex |-> Garbage]

\* input_buffer[idx] = v.  A store outside the array is undefined behaviour;
\* the model leaves the array alone and reports it (InBounds).
BufferStore(buf, idx, v) ==
    IF idx \in BufferIndex THEN [buf EXCEPT ![idx] = v] ELSE buf
InBounds(idx) == idx \in BufferIndex

process_bash_keypress_NoForwardBackspace(c, buf, pos, wOk) ==
    IF ~wOk
    THEN [ret |-> FALSE, out |-> <<>>, buf |-> buf, pos |-> pos, oob |-> FALSE]
    ELSE IF IsLineTerm(c)
    THEN [ret |-> TRUE, out |-> <<c>>, buf |-> buf, pos |-> 0, oob |-> FALSE]
    ELSE IF IsBackspace(c)
    THEN [ret |-> TRUE, out |-> <<>>, buf |-> buf,
          pos |-> IF pos > 0 THEN pos - 1 ELSE pos, oob |-> FALSE]
    ELSE IF pos < INPUT_BUFFER_SIZE - 1
    THEN [ret |-> TRUE, out |-> <<c>>, buf |-> BufferStore(buf, pos, c),
          pos |-> pos + 1, oob |-> ~InBounds(pos)]
    ELSE [ret |-> TRUE, out |-> <<c>>, buf |-> buf, pos |-> pos, oob |-> FALSE]

\* process_bash_keypress: write the byte to the pty master (return false when
\* the write fails, before any bookkeeping), then update the shadow buffer.
\* out is what reached the child's input channel.
process_bash_keypress(c, buf, pos, wOk) ==
    IF ~wOk
    THEN [ret |-> FALSE, out |-> <<>>, buf |-> buf, pos |-> pos, oob |-> FALSE]
    ELSE IF IsLineTerm(c)
    THEN [ret |-> TRUE, out |-> <<c>>, buf |-> buf, pos |-> 0, oob |-> FALSE]
    ELSE IF IsBackspace(c)
    THEN [ret |-> TRUE, out |-> <<c>>, buf |-> buf,
          pos |-> IF pos > 0 THEN pos - 1 ELSE pos, oob |-> FALSE]
    ELSE IF pos < INPUT_BUFFER_SIZE - 1
    THEN [ret |-> TRUE, out |-> <<c>>, buf |-> BufferStore(buf, pos, c),
          pos |-> pos + 1, oob |-> ~InBounds(pos)]
    ELSE [ret |-> TRUE, out |-> <<c>>, buf |-> buf, pos |-> pos, oob |-> FALSE]

chat_edit_NoBackspaceGuard(c, buf, pos, echoOk) ==
    IF IsBackspace(c)
    THEN [ret |-> echoOk, out |-> <<>>, buf |-> buf, pos |-> pos - 1,
          oob |-> FALSE]
    ELSE IF pos < INPUT_BUFFER_SIZE - 1
         THEN [ret |-> echoOk, out |-> <<>>, buf |-> BufferStore(buf, pos, c),
               pos |-> pos + 1, oob |-> ~InBounds(pos)]
         ELSE [ret |-> TRUE, out |-> <<>>, buf |-> buf, pos |-> pos,
               oob |-> FALSE]

chat_edit_FullAtSize(c, buf, pos, echoOk) ==
    IF IsBackspace(c)
    THEN IF pos > 0
         THEN [ret |-> echoOk, out |-> <<>>, buf |-> buf, pos |-> pos - 1,
               oob |-> FALSE]
         ELSE [ret |-> TRUE, out |-> <<>>, buf |-> buf, pos |-> pos,
               oob |-> FALSE]
    ELSE IF pos < INPUT_BUFFER_SIZE
         THEN [ret |-> echoOk, out |-> <<>>, buf |-> BufferStore(buf, pos, c),
               pos |-> pos + 1, oob |-> ~InBounds(pos)]
         ELSE [ret |-> TRUE, out |-> <<>>, buf |-> buf, pos |-> pos,
               oob |-> FALSE]

chat_edit_ForwardsToChild(c, buf, pos, echoOk) ==
    IF IsBackspace(c)
    THEN IF pos > 0
         THEN [ret |-> echoOk, out |-> <<>>, buf |-> buf, pos |-> pos - 1,
               oob |-> FALSE]
         ELSE [ret |-> TRUE, out |-> <<>>, buf |-> buf, pos |-> pos,
               oob |-> FALSE]
    ELSE IF pos < INPUT_BUFFER_SIZE - 1
         THEN [ret |-> echoOk, out |-> <<c>>, buf |-> BufferStore(buf, pos, c),
               pos |-> pos + 1, oob |-> ~InBounds(pos)]
         ELSE [ret |-> TRUE, out |-> <<>>, buf |-> buf, pos |-> pos,
               oob |-> FALSE]

\* process_chat_keypress, the backspace and regular-character branches:
\* local line editing with an echo to the real terminal (a failed echo only
\* changes the return value).  Nothing is written to the child.
chat_edit(c, buf, pos, echoOk) ==
    IF IsBackspace(c)
    THEN IF pos > 0
         THEN [ret |-> echoOk, out |-> <<>>, buf |-> buf, pos |-> pos - 1,
               oob |-> FALSE]
         ELSE [ret |-> TRUE, out |-> <<>>, buf |-> buf, pos |-> pos,
               oob |-> FALSE]
    ELSE IF pos < INPUT_BUFFER_SIZE - 1
         THEN [ret |-> echoOk, out |-> <<>>, buf |-> BufferStore(buf, pos, c),
               pos |-> pos + 1, oob |-> ~InBounds(pos)]
         ELSE [ret |-> TRUE, out |-> <<>>, buf |-> buf, pos |-> pos,
               oob |-> FALSE]

(***************************************************************************)
(* The translation collaborator (api.c) as the core sees it: ApiResponse.  *)
(***************************************************************************)

\* "rm -rf /"
DangerPattern == <<114, 109, 32, 45, 114, 102, 32, 47>>
\* "ls"
CmdLs == <<108, 115>>

\* strstr(s, pat) != NULL
Contains(s, pat) ==
    \E i \in 1 .. (Len(s) - Len(pat) + 1) :
        SubSeq(s, i, i + Len(pat) - 1) = pat

api_validate_command_NoDangerCheck(has_command, command) ==
    /\ has_command
    /\ Len(command) > 0

\* api_validate_command: not NULL, not empty, no "rm -rf /" in it.
api_validate_command(has_command, command) ==
    /\ has_command
    /\ Len(command) > 0
    /\ ~Contains(command, DangerPattern)

\* Command texts the service can send back.
CommandTexts == {<<>>, <<CharA>>, CmdLs, DangerPattern, <<CharA>> \o DangerPattern}

\* No exchange made (the response structure is not in use).
NoResponse ==
    [ok |-> FALSE, has_command |-> FALSE, command |-> <<>>, is_valid |-> FALSE,
     made |-> FALSE]

\* What api_send_request can leave in *response: a failed request (command
\* NULL, is_valid false), or a command (NULL when strdup failed) with
\* is_valid set by api_validate_command.
ApiResponses ==
    {[ok |-> FALSE, has_command |-> FALSE, command |-> <<>>,
      is_valid |-> FALSE, made |-> TRUE]}
    \cup
    {[ok |-> TRUE, has_command |-> FALSE, command |-> <<>>,
      is_valid |-> api_validate_command(FALSE, <<>>), made |-> TRUE]}
    \cup
    {[ok |-> TRUE, has_command |-> TRUE, command |-> t,
      is_valid |-> api_validate_command(TRUE, t), made |-> TRUE] :
        t \in CommandTexts}

\* Return values of write(fd, command, strlen(command)): -1, or the number
\* of bytes the non-blocking descriptor accepted.
WriteResults(command) == {-1} \cup (1 .. Len(command))

process_chat_input_InjectsInvalid(input_len, resp, mode, n, nlOk) ==
    IF input_len = 0
    THEN [ret |-> FALSE, out |-> <<>>, mode |-> mode, kind |-> "submit_empty"]
    ELSE IF ~resp.ok
    THEN [ret |-> FALSE, out |-> <<>>, mode |-> mode, kind |-> "submit_req_fail"]
    ELSE IF ~resp.has_command
    THEN [ret |-> FALSE, out |-> <<>>, mode |-> mode, kind |-> "submit_invalid"]
    ELSE IF n = -1
    THEN [ret |-> FALSE, out |-> <<>>, mode |-> mode,
          kind |-> IF resp.is_valid THEN "submit_cmd_wfail" ELSE "submit_invalid"]
    ELSE IF ~nlOk
    THEN [ret |-> FALSE, out |-> SubSeq(resp.command, 1, n), mode |-> mode,
          kind |-> IF resp.is_valid THEN "submit_nl_wfail" ELSE "submit_invalid"]
    ELSE [ret |-> TRUE, out |-> SubSeq(resp.command, 1, n) \o <<LF>>,
          mode |-> MODE_BASH,
          kind |-> IF resp.is_valid THEN "submit_ok" ELSE "submit_invalid"]

process_chat_input_NoNewline(input_len, resp, mode, n, nlOk) ==
    IF input_len = 0
    THEN [ret |-> FALSE, out |-> <<>>, mode |-> mode, kind |-> "submit_empty"]
    ELSE IF ~resp.ok
    THEN [ret |-> FALSE, out |-> <<>>, mode |-> mode, kind |-> "submit_req_fail"]
    ELSE IF ~resp.is_valid \/ ~resp.has_command
    THEN [ret |-> FALSE, out |-> <<>>, mode |-> mode, kind |-> "submit_invalid"]
    ELSE IF n = -1
    THEN [ret |-> FALSE, out |-> <<>>, mode |-> mode, kind |-> "submit_cmd_wfail"]
    ELSE [ret |-> TRUE, out |-> SubSeq(resp.command, 1, n),
          mode |-> MODE_BASH, kind |-> "submit_ok"]

process_chat_input_SwitchesOnFailure(input_len, resp, mode, n, nlOk) ==
    IF input_len = 0
    THEN [ret |-> FALSE, out |-> <<>>, mode |-> mode, kind |-> "submit_empty"]
    ELSE IF ~resp.ok
    THEN [ret |-> FALSE, out |-> <<>>, mode |-> MODE_BASH,
          kind |-> "submit_req_fail"]
    ELSE IF ~resp.is_valid \/ ~resp.has_command
    THEN [ret |-> FALSE, out |-> <<>>, mode |-> MODE_BASH,
          kind |-> "submit_invalid"]
    ELSE IF n = -1
    THEN [ret |-> FALSE, out |-> <<>>, mode |-> mode, kind |-> "submit_cmd_wfail"]
    ELSE IF ~nlOk
    THEN [ret |-> FALSE, out |-> SubSeq(resp.command, 1, n), mode |-> mode,
          kind |-> "submit_nl_wfail"]
    ELSE [ret |-> TRUE, out |-> SubSeq(resp.command, 1, n) \o <<LF>>,
          mode |-> MODE_BASH, kind |-> "submit_ok"]

process_chat_input_RequestsOnEmpty(input_len, resp, mode, n, nlOk) ==
    IF ~resp.ok
    THEN [ret |-> FALSE, out |-> <<>>, mode |-> mode, kind |-> "submit_req_fail"]
    ELSE IF ~resp.is_valid \/ ~resp.has_command
    THEN [ret |-> FALSE, out |-> <<>>, mode |-> mode, kind |-> "submit_invalid"]
    ELSE IF n = -1
    THEN [ret |-> FALSE, out |-> <<>>, mode |-> mode, kind |-> "submit_cmd_wfail"]
    ELSE IF ~nlOk
    THEN [ret |-> FALSE, out |-> SubSeq(resp.command, 1, n), mode |-> mode,
          kind |-> "submit_nl_wfail"]
    ELSE [ret |-> TRUE, out |-> SubSeq(resp.command, 1, n) \o <<LF>>,
          mode |-> MODE_BASH, kind |-> "submit_ok"]

\* process_chat_input: nothing for an empty line; a failed request or an
\* invalid command returns false with nothing written and the mode as it
\* was; otherwise the command (the n bytes write() took) and a newline go to
\* the pty master and current_mode is set to MODE_BASH.
process_chat_input(input_len, resp, mode, n, nlOk) ==
    IF input_len = 0
    THEN [ret |-> FALSE, out |-> <<>>, mode |-> mode, kind |-> "submit_empty"]
    ELSE IF ~resp.ok
    THEN [ret |-> FALSE, out |-> <<>>, mode |-> mode, kind |-> "submit_req_fail"]
    ELSE IF ~resp.is_valid \/ ~resp.has_command
    THEN [ret |-> FALSE, out |-> <<>>, mode |-> mode, kind |-> "submit_invalid"]
    ELSE IF n = -1
    THEN [ret |-> FALSE, out |-> <<>>, mode |-> mode, kind |-> "submit_cmd_wfail"]
    ELSE IF ~nlOk
    THEN [ret |-> FALSE, out |-> SubSeq(resp.command, 1, n), mode |-> mode,
          kind |-> "submit_nl_wfail"]
    ELSE [ret |-> TRUE, out |-> SubSeq(resp.command, 1, n) \o <<LF>>,
          mode |-> MODE_BASH, kind |-> "submit_ok"]

display_prompt_NewlineInBothModes(mode, clearOk, wOk) ==
    IF ~clearOk
    THEN [ret |-> FALSE, out |-> <<>>, cleared |-> FALSE]
    ELSE [ret |-> wOk, out |-> IF wOk THEN <<LF>> ELSE <<>>, cleared |-> TRUE]

\* display_prompt: clear the line on the real terminal (cleared tells
\* whether that write succeeded; false is returned at once when it did
\* not); then in chat mode write the prompt there, in bash mode write one
\* newline to the pty master.  out is what reached the child's input
\* channel.
display_prompt(mode, clearOk, wOk) ==
    IF ~clearOk
    THEN [ret |-> FALSE, out |-> <<>>, cleared |-> FALSE]
    ELSE IF mode = MODE_CHAT
    THEN [ret |-> wOk, out |-> <<>>, cleared |-> TRUE]
    ELSE [ret |-> wOk, out |-> IF wOk THEN <<LF>> ELSE <<>>, cleared |-> TRUE]

\* What one call of aish_process_bash_output did: out is what reached the
\* real terminal's output, logged whether a message went to stderr.
BashOutput(ret, run, out, logged) ==
    [ret |-> ret, running |-> run, out |-> out, logged |-> logged]

aish_process_bash_output_EofIgnored(fd, rd, chunk, n, run) ==
    IF fd = NoFd
    THEN BashOutput(FALSE, run, <<>>, FALSE)
    ELSE IF rd \in {"data", "data_more"}
    THEN IF n = -1
         THEN BashOutput(FALSE, run, <<>>, TRUE)
         ELSE BashOutput(TRUE, run, SubSeq(chunk, 1, n), FALSE)
    ELSE IF rd = "error"
    THEN BashOutput(FALSE, run, <<>>, TRUE)
    ELSE BashOutput(TRUE, run, <<>>, FALSE)

aish_process_bash_output_EagainFatal(fd, rd, chunk, n, run) ==
    IF fd = NoFd
    THEN BashOutput(FALSE, run, <<>>, FALSE)
    ELSE IF rd \in {"data", "data_more"}
    THEN IF n = -1
         THEN BashOutput(FALSE, run, <<>>, TRUE)
         ELSE BashOutput(TRUE, run, SubSeq(chunk, 1, n), FALSE)
    ELSE IF rd \in {"error", "eagain"}
    THEN BashOutput(FALSE, run, <<>>, TRUE)
    ELSE BashOutput(TRUE, FALSE, <<>>, TRUE)

\* aish_process_bash_output: one read of the pty master.  A chunk is written
\* to stdout with one write(), n being what it returned: false when it is
\* -1, and otherwise the first n bytes are on the terminal and the result is
\* true, whether or not n is the length of the chunk.  An error other than
\* EAGAIN returns false; end of stream clears running; EAGAIN does nothing.
aish_process_bash_output(fd, rd, chunk, n, run) ==
    IF fd = NoFd
    THEN BashOutput(FALSE, run, <<>>, FALSE)
    ELSE IF rd \in {"data", "data_more"}
    THEN IF n = -1
         THEN BashOutput(FALSE, run, <<>>, TRUE)
         ELSE BashOutput(TRUE, run, SubSeq(chunk, 1, n), FALSE)
    ELSE IF rd = "error"
    THEN BashOutput(FALSE, run, <<>>, TRUE)
    ELSE IF rd = "eof"
    THEN BashOutput(TRUE, FALSE, <<>>, TRUE)
    ELSE BashOutput(TRUE, run, <<>>, FALSE)

(***************************************************************************)
(* The state of the program and of its environment.                        *)
(***************************************************************************)

VARIABLES
    pc,             \* where main() is
    exit_code,      \* main's exit_code
    running,        \* state->running
    g_state,        \* TRUE when g_state points at the state (handler armed)
    term,           \* state->terminal
    tty,            \* the configuration of the real terminal
    bash_master_fd, \* state->bash_master_fd
    child,          \* the forked shell: "none", "running", "exited", "reaped"
    pty_out,        \* TRUE when child output is waiting on the pty master
    input_buffer,   \* aish_run's input_buffer
    input_pos,      \* aish_run's input_pos
    read_fds,       \* the descriptors select() reported ready
    key,            \* the byte read from stdin in this iteration (NoKey: none)
    response,       \* the ApiResponse of this iteration's exchange
    child_in,       \* the bytes written to the pty master in this iteration
    ev,             \* what this iteration's keystroke handling did
    tty0,           \* the terminal configuration the program was started under
    restores,       \* tcsetattr calls made with original_termios
    restore_applied,\* TRUE once such a call succeeded
    eof_seen,       \* TRUE once a read of the pty master returned 0
    oob,            \* TRUE once a store landed outside input_buffer
    toggles,        \* the current run of successive mode toggles
    erase,          \* the current run "n bytes typed, then backspaces"
    setup_failure,  \* the steps of the start-up that failed
    wstatus,        \* how the child ended, as waitpid reports it
    ops,            \* the calls made by the terminal-controller scenario
    relay,          \* what this iteration's read of the pty master did
    line_net,       \* the bytes on the child's current input line, net of erasures
    early_signal    \* TRUE when a signal came before aish_run set running

vars == <<pc, exit_code, running, g_state, term, tty, bash_master_fd, child,
          pty_out, input_buffer, input_pos, read_fds, key, response, child_in,
          ev, tty0, restores, restore_applied, eof_seen, oob, toggles, erase,
          setup_failure, wstatus, ops, relay, line_net, early_signal>>

NoKey == -1

\* The record of one iteration's keystroke handling: which branch ran, what
\* write() of the command returned, and what display_prompt returned.
Event(kind, n, prompt) == [kind |-> kind, cmd_n |-> n, prompt |-> prompt]
NoEvent == Event("none", 0, "none")
PromptResult(d) ==
    IF d.ret THEN "ok"
    ELSE IF d.cleared THEN "write_failed" ELSE "clear_failed"

\* No run of toggles / no typed-then-erased run under way.
NoToggles == [count |-> 0, from |-> MODE_BASH, empty |-> TRUE]
NoErase == [phase |-> "idle", typed |-> 0, erased |-> 0, wrote |-> FALSE]

\* The bookkeeping of successive toggles: the mode before the first of two.
ToggleRun(t, mode, pos) ==
    IF t.count = 1
    THEN [t EXCEPT !.count = 2, !.empty = t.empty /\ pos = 0]
    ELSE [count |-> 1, from |-> mode, empty |-> pos = 0]

\* The bookkeeping of "typed n bytes from an empty buffer, then backspaces",
\* for a keystroke c edited in chat mode at position pos, wrote telling
\* whether the handling wrote to the child.
EraseRun(e, c, pos, wrote) ==
    IF IsBackspace(c)
    THEN IF e.phase \in {"typing", "erasing"} /\ e.erased < e.typed
         THEN [e EXCEPT !.phase = "erasing", !.erased = e.erased + 1,
                        !.wrote = e.wrote \/ wrote]
         ELSE NoErase
    ELSE IF e.phase = "typing" /\ e.typed < MaxTyped
         THEN [e EXCEPT !.typed = e.typed + 1, !.wrote = e.wrote \/ wrote]
         ELSE IF pos = 0 /\ e.phase # "typing"
              THEN [phase |-> "typing", typed |-> 1, erased |-> 0, wrote |-> wrote]
              ELSE NoErase

\* The record of one iteration's read of the pty master: what read()
\* returned (rd, and the chunk when it was data), what reached the real
\* terminal's output, and whether a message was logged.
Relay(rd, chunk, out, logged) ==
    [rd |-> rd, chunk |-> chunk, out |-> out, logged |-> logged]
NoRelay == Relay("none", <<>>, <<>>, FALSE)

Init ==
    /\ pc = "main"
    /\ exit_code = EXIT_FAILURE
    /\ running = FALSE
    /\ g_state = FALSE
    /\ term = ZeroTerminalState
    /\ tty \in InitialTermios
    /\ tty0 = tty
    /\ bash_master_fd = NoFd
    /\ child = "none"
    /\ pty_out = FALSE
    /\ input_buffer = FreshBuffer
    /\ input_pos = 0
    /\ read_fds = {}
    /\ key = NoKey
    /\ response = NoResponse
    /\ child_in = <<>>
    /\ ev = NoEvent
    /\ restores = 0
    /\ restore_applied = FALSE
    /\ eof_seen = FALSE
    /\ oob = FALSE
    /\ toggles = NoToggles
    /\ erase = NoErase
    /\ line_net = 0
    /\ early_signal = FALSE
    /\ setup_failure = {}
    /\ wstatus = "none"
    /\ ops = <<>>
    /\ relay = NoRelay

loop_vars == <<input_buffer, input_pos, read_fds, key, response, child_in, ev,
               eof_seen, oob, toggles, erase, relay, line_net>>
term_vars == <<term, tty, restores, restore_applied>>
child_vars == <<child, pty_out, wstatus>>

(***************************************************************************)
(* main(): aish_init, aish_spawn_bash, aish_run, aish_cleanup.             *)
(***************************************************************************)

\* aish_init.  A failure of config_init, config_load, the API key check,
\* terminal_init or api_init makes main return EXIT_FAILURE at once; on
\* success the terminal state is initialised and the handler is installed.
InitFailures == {"config_init", "config_load", "no_api_key", "terminal_init",
                 "api_init"}

aish_init ==
    /\ pc = "main"
    /\ \E outcome \in InitFailures \cup {"ok"} :
        IF outcome = "ok"
        THEN /\ term' = terminal_init
             /\ g_state' = TRUE
             /\ pc' = "spawn"
             /\ UNCHANGED setup_failure
        ELSE /\ pc' = "exited"
             /\ setup_failure' = {outcome}
             /\ term' = IF outcome = "api_init"
                        THEN terminal_cleanup(terminal_init, tty, TRUE).term
                        ELSE term
             /\ UNCHANGED g_state
    /\ UNCHANGED <<exit_code, running, tty, tty0, ops, restores,
                   restore_applied, bash_master_fd, child_vars, loop_vars,
                   early_signal>>

\* The failures aish_spawn_bash reports to main, and the one that happens
\* in the forked child, where the parent does not see it.
SpawnFailures == {"forkpty", "fcntl_getfl", "fcntl_setfl"}
ExecFailure == "execvp"

aish_spawn_bash_ret_IgnoresFcntl(outcome) == outcome # "forkpty"

\* What aish_spawn_bash returns for an outcome of its system calls: false
\* when forkpty or one of the two fcntl calls failed.  A failed execvp ends
\* the child with exit(EXIT_FAILURE); the parent's branch returns true.
aish_spawn_bash_ret(outcome) == outcome \notin SpawnFailures

\* aish_spawn_bash.  forkpty fails (no child, no descriptor), fcntl fails
\* (the child runs, the descriptor is open), or the parent goes on with a
\* non-blocking master.  When execvp failed the child has written its
\* message to the pty and has exited with a non-zero status.  A failure
\* sends main to aish_cleanup.
aish_spawn_bash ==
    /\ pc = "spawn"
    /\ \E outcome \in SpawnFailures \cup {ExecFailure, "ok"} :
        /\ bash_master_fd' = IF outcome = "forkpty" THEN NoFd ELSE MasterFd
        /\ child' = CASE outcome = "forkpty" -> "none"
                      [] outcome = ExecFailure -> "exited"
                      [] OTHER -> "running"
        /\ pty_out' = (outcome = ExecFailure)
        /\ setup_failure' = IF outcome = "ok" THEN {} ELSE {outcome}
        /\ pc' = IF aish_spawn_bash_ret(outcome) THEN "run" ELSE "cleanup"
    /\ UNCHANGED <<exit_code, running, g_state, term_vars, tty0, ops, wstatus,
                   loop_vars, early_signal>>

RunningAtStart_KeepsSignal(signalled) == ~signalled

\* state->running = true: the value aish_run gives the flag before the loop,
\* whether or not the signal handler ran since aish_init (signalled).
RunningAtStart(signalled) == TRUE

\* aish_run up to the loop: enable raw mode (EXIT_FAILURE when it fails),
\* set running, start with input_pos 0.
aish_run_enter ==
    /\ pc = "run"
    /\ \E getOk \in BOOLEAN, setOk \in BOOLEAN :
        LET r == terminal_enable_raw_mode(term, tty, getOk, setOk) IN
        /\ term' = r.term
        /\ tty' = r.tty
        /\ IF r.ret
           THEN /\ running' = RunningAtStart(early_signal)
                /\ pc' = "loop"
                /\ UNCHANGED <<exit_code, setup_failure>>
           ELSE /\ exit_code' = EXIT_FAILURE
                /\ pc' = "cleanup"
                /\ setup_failure' = setup_failure \cup
                        {IF getOk THEN "tcsetattr" ELSE "tcgetattr"}
                /\ UNCHANGED running
    /\ input_pos' = 0
    /\ UNCHANGED <<g_state, tty0, ops, restores, restore_applied,
                   bash_master_fd, child_vars, input_buffer, read_fds, key,
                   response, child_in, ev, eof_seen, relay, oob, toggles,
                   erase, line_net, early_signal>>

\* while (state->running): the next iteration starts, or the loop ends.  A
\* signal that came before the loop is history from here on.
loop_check ==
    /\ pc = "loop"
    /\ pc' = IF running THEN "select_call" ELSE "teardown"
    /\ key' = NoKey
    /\ response' = NoResponse
    /\ child_in' = <<>>
    /\ ev' = NoEvent
    /\ read_fds' = {}
    /\ early_signal' = FALSE
    /\ UNCHANGED <<exit_code, running, g_state, term_vars, tty0,
                   setup_failure, ops, bash_master_fd, child_vars,
                   input_buffer, input_pos, eof_seen, relay, oob, toggles,
                   erase, line_net>>

\* The fd sets are built and select() is entered: the process blocks in it.
select_call ==
    /\ pc = "select_call"
    /\ pc' = "select"
    /\ UNCHANGED <<exit_code, running, g_state, term_vars, tty0,
                   setup_failure, ops, bash_master_fd, child_vars, loop_vars,
                   early_signal>>

\* Where the iteration goes after select() returned the ready set fds.
AfterSelect(fds) ==
    IF STDIN_FILENO \in fds THEN "stdin" ELSE "bashout"

\* select() returns a non-empty ready set.  The pty master is in it when
\* output is waiting.
select_ready ==
    /\ pc = "select"
    /\ \E fds \in (SUBSET {STDIN_FILENO, MasterFd}) \ {{}} :
        /\ (pty_out => MasterFd \in fds)
        /\ read_fds' = fds
        /\ pc' = AfterSelect(fds)
    /\ UNCHANGED <<exit_code, running, g_state, term_vars, tty0,
                   setup_failure, ops, bash_master_fd, child_vars,
                   input_buffer, input_pos, key, response, child_in, ev,
                   eof_seen, relay, oob, toggles, erase, line_net,
                   early_signal>>

\* select() fails with something other than EINTR: break.
select_error ==
    /\ pc = "select"
    /\ pc' = "teardown"
    /\ UNCHANGED <<exit_code, running, g_state, term_vars, tty0,
                   setup_failure, ops, bash_master_fd, child_vars, loop_vars,
                   early_signal>>

\* select() is interrupted by a signal other than SIGINT and SIGTERM.
select_eintr ==
    /\ pc = "select"
    /\ pc' = "eintr"
    /\ UNCHANGED <<exit_code, running, g_state, term_vars, tty0,
                   setup_failure, ops, bash_master_fd, child_vars, loop_vars,
                   early_signal>>

AfterEintr_AlwaysBreaks(run) == "teardown"

\* Where the loop goes when select() failed with EINTR: break when running
\* was cleared, else continue.
AfterEintr(run) == IF ~run THEN "teardown" ELSE "loop"

\* errno == EINTR: break when running was cleared, else continue.
eintr_check ==
    /\ pc = "eintr"
    /\ pc' = AfterEintr(running)
    /\ UNCHANGED <<exit_code, running, g_state, term_vars, tty0,
                   setup_failure, ops, bash_master_fd, child_vars, loop_vars,
                   early_signal>>

\* aish_signal_handler, run on SIGINT or SIGTERM once aish_init installed it:
\* clears running when g_state is set.  A select() the process is blocked in
\* returns EINTR; anywhere else the program goes on where it was.
aish_signal_handler ==
    /\ pc \notin {"main", "exited"}
    /\ running' = IF g_state THEN FALSE ELSE running
    /\ pc' = IF pc = "select" THEN "eintr" ELSE pc
    /\ early_signal' = (early_signal \/ pc \in {"spawn", "run"})
    /\ UNCHANGED <<exit_code, g_state, term_vars, tty0, setup_failure, ops,
                   bash_master_fd, child_vars, loop_vars>>

(***************************************************************************)
(* One iteration of the loop of aish_run: the keystroke.                   *)
(***************************************************************************)

\* Where the iteration goes after the stdin block.
AfterStdin == IF MasterFd \in read_fds THEN "bashout" ELSE "waitpid"

\* The end of the stdin block: the byte read and what was done with it go
\* out of scope, and the iteration goes on to the child's output.
stdin_done ==
    /\ pc = "stdin_done"
    /\ pc' = AfterStdin
    /\ key' = NoKey
    /\ response' = NoResponse
    /\ child_in' = <<>>
    /\ ev' = NoEvent
    /\ UNCHANGED <<exit_code, running, g_state, term_vars, tty0,
                   setup_failure, ops, bash_master_fd, child_vars,
                   input_buffer, input_pos, read_fds, eof_seen, relay, oob,
                   toggles, erase, line_net, early_signal>>

\* read(STDIN_FILENO) returns 0 bytes, or fails with EAGAIN.
stdin_read_nothing ==
    /\ pc = "stdin"
    /\ ev' = Event("read_none", 0, "none")
    /\ pc' = "stdin_done"
    /\ UNCHANGED <<exit_code, running, g_state, term_vars, tty0,
                   setup_failure, ops, bash_master_fd, child_vars,
                   input_buffer, input_pos, read_fds, key, response, child_in,
                   eof_seen, relay, oob, toggles, erase, line_net,
                   early_signal>>

\* read(STDIN_FILENO) fails with another error: break.
stdin_read_error ==
    /\ pc = "stdin"
    /\ ev' = Event("read_error", 0, "none")
    /\ pc' = "teardown"
    /\ UNCHANGED <<exit_code, running, g_state, term_vars, tty0,
                   setup_failure, ops, bash_master_fd, child_vars,
                   input_buffer, input_pos, read_fds, key, response, child_in,
                   eof_seen, relay, oob, toggles, erase, line_net,
                   early_signal>>

\* The byte is the toggle gesture: terminal_process_key flipped the mode,
\* input_pos is reset, the prompt is displayed, and the loop continues with
\* its next iteration.
key_toggle ==
    /\ pc = "stdin"
    /\ \E c \in Bytes, clearOk \in BOOLEAN, wOk \in BOOLEAN :
        LET k == terminal_process_key(term, c, input_pos)
            d == display_prompt(terminal_get_mode(k.term), clearOk, wOk)
        IN  /\ k.toggled
            /\ key' = c
            /\ term' = k.term
            /\ input_pos' = 0
            /\ child_in' = child_in \o d.out
            /\ ev' = Event("toggle", 0, PromptResult(d))
            /\ toggles' = ToggleRun(toggles, term.current_mode, input_pos)
    /\ UNCHANGED <<line_net, early_signal>>
    /\ erase' = NoErase
    /\ pc' = "loop"
    /\ UNCHANGED <<exit_code, running, g_state, tty, tty0, setup_failure, ops,
                   restores, restore_applied, bash_master_fd, child_vars,
                   input_buffer, read_fds, response, eof_seen, relay, oob>>

AfterKeypress_BreaksOnFalse(ret) == IF ret THEN "stdin_done" ELSE "teardown"

\* Where the iteration goes after process_bash_keypress or
\* process_chat_keypress returned ret: on, whatever it returned, since
\* aish_run calls them as statements.
AfterKeypress(ret) == "stdin_done"

\* The byte is handled by process_bash_keypress (its return value is not
\* looked at by aish_run).
bash_keypress ==
    /\ pc = "stdin"
    /\ \E c \in Bytes, wOk \in BOOLEAN :
        LET k == terminal_process_key(term, c, input_pos)
            r == process_bash_keypress(c, input_buffer, input_pos, wOk)
        IN  /\ ~k.toggled
            /\ terminal_get_mode(k.term) = MODE_BASH
            /\ key' = c
            /\ input_buffer' = r.buf
            /\ input_pos' = r.pos
            /\ oob' = (oob \/ r.oob)
            /\ child_in' = child_in \o r.out
            /\ ev' = Event(IF r.ret THEN "bash_key" ELSE "bash_key_wfail",
                           0, "none")
            /\ pc' = AfterKeypress(r.ret)
    /\ toggles' = NoToggles
    /\ UNCHANGED <<line_net, early_signal>>
    /\ erase' = NoErase
    /\ UNCHANGED <<exit_code, running, g_state, term_vars, tty0,
                   setup_failure, ops, bash_master_fd, child_vars, read_fds,
                   response, eof_seen, relay>>

\* The byte is a backspace or a regular character in chat mode.
chat_keypress_edit ==
    /\ pc = "stdin"
    /\ \E c \in Bytes, echoOk \in BOOLEAN :
        LET k == terminal_process_key(term, c, input_pos)
            r == chat_edit(c, input_buffer, input_pos, echoOk)
        IN  /\ ~k.toggled
            /\ terminal_get_mode(k.term) = MODE_CHAT
            /\ ~IsLineTerm(c)
            /\ key' = c
            /\ input_buffer' = r.buf
            /\ input_pos' = r.pos
            /\ oob' = (oob \/ r.oob)
            /\ child_in' = child_in \o r.out
            /\ ev' = Event(IF r.ret THEN "chat_edit" ELSE "chat_echo_failed",
                           0, "none")
            /\ UNCHANGED <<line_net, early_signal>>
            /\ erase' = EraseRun(erase, c, input_pos, r.out # <<>>)
            /\ pc' = AfterKeypress(r.ret)
    /\ toggles' = NoToggles
    /\ UNCHANGED <<exit_code, running, g_state, term_vars, tty0,
                   setup_failure, ops, bash_master_fd, child_vars, read_fds,
                   response, eof_seen, relay>>

\* A line terminator in chat mode, process_chat_keypress up to the request:
\* terminate the line, echo "\r\n" (return false when that fails).  An empty
\* line makes process_chat_input return at once, and input_pos is reset and
\* the prompt displayed; otherwise the request goes out.
chat_enter_begin ==
    /\ pc = "stdin"
    /\ \E c \in Bytes, echoOk \in BOOLEAN, clearOk \in BOOLEAN,
          wOk \in BOOLEAN :
        LET k == terminal_process_key(term, c, input_pos)
            r == process_chat_input(input_pos, NoResponse, term.current_mode,
                                    -1, FALSE)
            d == display_prompt(r.mode, clearOk, wOk)
        IN  /\ ~k.toggled
            /\ terminal_get_mode(k.term) = MODE_CHAT
            /\ IsLineTerm(c)
            /\ key' = c
            /\ input_buffer' = BufferStore(input_buffer, input_pos, NUL)
            /\ oob' = (oob \/ ~InBounds(input_pos))
            /\ IF ~echoOk
               THEN /\ ev' = Event("echo_newline_failed", 0, "none")
                    /\ pc' = AfterKeypress(FALSE)
                    /\ UNCHANGED <<input_pos, child_in, term>>
               ELSE IF r.kind = "submit_empty"
               THEN /\ ev' = Event(r.kind, 0, PromptResult(d))
                    /\ term' = [term EXCEPT !.current_mode = r.mode]
                    /\ input_pos' = 0
                    /\ child_in' = child_in \o r.out \o d.out
                    /\ pc' = AfterKeypress(TRUE)
               ELSE /\ ev' = Event("submit_pending", 0, "none")
                    /\ pc' = "chat_api"
                    /\ UNCHANGED <<input_pos, child_in, term>>
    /\ toggles' = NoToggles
    /\ UNCHANGED <<line_net, early_signal>>
    /\ erase' = NoErase
    /\ UNCHANGED <<exit_code, running, g_state, tty, tty0, setup_failure, ops,
                   restores, restore_applied, bash_master_fd, child_vars,
                   read_fds, response, eof_seen, relay>>

\* Whether process_chat_input got as far as writing the command.
WroteCommand(kind) ==
    kind \in {"submit_cmd_wfail", "submit_nl_wfail", "submit_ok"}

chat_enter_finish_CancelledBySignal ==
    /\ pc = "chat_api"
    /\ \E resp \in ApiResponses, nlOk \in BOOLEAN, clearOk \in BOOLEAN,
          wOk \in BOOLEAN :
        \E n \in WriteResults(resp.command) :
        LET r == IF running
                 THEN process_chat_input(input_pos, resp, term.current_mode,
                                         n, nlOk)
                 ELSE [ret |-> FALSE, out |-> <<>>, mode |-> term.current_mode,
                       kind |-> "submit_req_fail"]
            d == display_prompt(r.mode, clearOk, wOk)
        IN  /\ response' = resp
            /\ term' = [term EXCEPT !.current_mode = r.mode]
            /\ input_pos' = 0
            /\ child_in' = child_in \o r.out \o d.out
            /\ ev' = Event(r.kind, IF WroteCommand(r.kind) THEN n ELSE 0,
                           PromptResult(d))
    /\ pc' = IF running THEN "stdin_done" ELSE "teardown"
    /\ UNCHANGED <<exit_code, running, g_state, tty, tty0, setup_failure, ops,
                   restores, restore_applied, bash_master_fd, child_vars,
                   input_buffer, read_fds, key, eof_seen, relay, oob, toggles,
                   erase, line_net, early_signal>>

\* api_send_request returns and process_chat_input handles the response;
\* then process_chat_keypress resets input_pos and displays the prompt.
chat_enter_finish ==
    /\ pc = "chat_api"
    /\ \E resp \in ApiResponses, nlOk \in BOOLEAN, clearOk \in BOOLEAN,
          wOk \in BOOLEAN :
        \E n \in WriteResults(resp.command) :
        LET r == process_chat_input(input_pos, resp, term.current_mode, n, nlOk)
            d == display_prompt(r.mode, clearOk, wOk)
        IN  /\ response' = resp
            /\ term' = [term EXCEPT !.current_mode = r.mode]
            /\ input_pos' = 0
            /\ child_in' = child_in \o r.out \o d.out
            /\ ev' = Event(r.kind, IF WroteCommand(r.kind) THEN n ELSE 0,
                           PromptResult(d))
    /\ pc' = AfterKeypress(TRUE)
    /\ UNCHANGED <<exit_code, running, g_state, tty, tty0, setup_failure, ops,
                   restores, restore_applied, bash_master_fd, child_vars,
                   input_buffer, read_fds, key, eof_seen, relay, oob, toggles,
                   erase, line_net, early_signal>>

(***************************************************************************)
(* One iteration of the loop of aish_run: the child's output and the       *)
(* liveness probe; teardown and cleanup.                                   *)
(***************************************************************************)

\* What read() of the pty master can return: a chunk when output waits
\* ("data" when it was all of it, "data_more" when more is left); EAGAIN
\* when none does and the child lives; end of stream once it exited; and a
\* failure at any time.
ReadOutcomes ==
    IF pty_out THEN {"data", "data_more", "error"}
    ELSE IF child = "running" THEN {"eagain", "error"}
    ELSE {"eof", "error"}

\* The chunks the shell's output is read in.
Chunks == {<<CharA, CharB>>, <<CharB>>}

\* What read() of the pty master stored in the buffer.
ChunksRead(rd) == IF rd \in {"data", "data_more"} THEN Chunks ELSE {<<>>}

\* Return values of write(STDOUT_FILENO, buffer, bytes_read): -1, or the
\* number of bytes written, which can be less than asked for.
StdoutWriteResults(chunk) ==
    IF chunk = <<>> THEN {0} ELSE {-1} \cup (1 .. Len(chunk))

\* if (FD_ISSET(bash_master_fd)) aish_process_bash_output, break on false.
bash_output ==
    /\ pc = "bashout"
    /\ \E rd \in ReadOutcomes :
        \E chunk \in ChunksRead(rd) :
        \E n \in StdoutWriteResults(chunk) :
        LET r == aish_process_bash_output(bash_master_fd, rd, chunk, n,
                                          running)
        IN  /\ pty_out' = IF rd = "data" THEN FALSE ELSE pty_out
            /\ running' = r.running
            /\ eof_seen' = (eof_seen \/ rd = "eof")
            /\ relay' = Relay(rd, chunk, r.out, r.logged)
            /\ pc' = IF r.ret THEN "waitpid" ELSE "teardown"
    /\ UNCHANGED <<exit_code, g_state, term_vars, tty0, setup_failure, ops,
                   bash_master_fd, child, wstatus, input_buffer, input_pos,
                   read_fds, key, response, child_in, ev, oob, toggles, erase,
                   line_net, early_signal>>

\* The ways a child ends, as WIFEXITED / WIFSIGNALED tell them apart.
ExitKinds == {"exit_zero", "exit_nonzero", "signaled"}

\* The status waitpid stores for the child: any of the three for a shell,
\* the exit(EXIT_FAILURE) of the child whose execvp failed.
WaitStatus ==
    IF ExecFailure \in setup_failure THEN {"exit_nonzero"} ELSE ExitKinds

\* What waitpid(bash_pid, WNOHANG) can return.
WaitOutcomes ==
    IF child = "running" THEN {"none", "error"}
    ELSE IF child = "exited" THEN {"pid", "error"}
    ELSE {"error"}

\* waitpid(WNOHANG): the child exited (running cleared), a failure (break),
\* or nothing to report.
waitpid_probe ==
    /\ pc = "waitpid"
    /\ \E res \in WaitOutcomes :
        /\ running' = IF res = "pid" THEN FALSE ELSE running
        /\ child' = IF res = "pid" THEN "reaped" ELSE child
        /\ IF res = "pid" THEN wstatus' \in WaitStatus ELSE UNCHANGED wstatus
        /\ pc' = IF res = "error" THEN "teardown" ELSE "loop"
    /\ relay' = NoRelay
    /\ UNCHANGED <<exit_code, g_state, term_vars, tty0, setup_failure, ops,
                   bash_master_fd, pty_out, input_buffer, input_pos, read_fds,
                   key, response, child_in, ev, eof_seen, oob, toggles, erase,
                   line_net, early_signal>>

aish_run_ret_ChildStatus(status) ==
    IF status \in {"exit_nonzero", "signaled"} THEN EXIT_FAILURE
    ELSE EXIT_SUCCESS

aish_run_ret_FailureUnlessReaped(status) ==
    IF status = "none" THEN EXIT_FAILURE ELSE EXIT_SUCCESS

\* What aish_run returns after the loop, the status waitpid stored being
\* status: EXIT_SUCCESS, the status is only printed.
aish_run_ret(status) == EXIT_SUCCESS

\* After the loop: terminal_disable_raw_mode, return EXIT_SUCCESS.
aish_run_teardown ==
    /\ pc = "teardown"
    /\ \E setOk \in BOOLEAN :
        LET r == terminal_disable_raw_mode(term, tty, setOk) IN
        /\ term' = r.term
        /\ tty' = r.tty
        /\ restores' = restores + r.calls
        /\ restore_applied' = (restore_applied \/ r.applied)
    /\ exit_code' = aish_run_ret(wstatus)
    /\ pc' = "cleanup"
    /\ UNCHANGED <<running, g_state, tty0, setup_failure, ops, bash_master_fd,
                   child_vars, loop_vars, early_signal>>

\* aish_cleanup, and main returns exit_code.
aish_cleanup ==
    /\ pc = "cleanup"
    /\ \E setOk \in BOOLEAN :
        LET r == terminal_cleanup(term, tty, setOk) IN
        /\ term' = r.term
        /\ tty' = r.tty
        /\ restores' = restores + r.calls
        /\ restore_applied' = (restore_applied \/ r.applied)
    /\ bash_master_fd' = NoFd
    /\ g_state' = FALSE
    /\ pc' = "exited"
    /\ UNCHANGED <<exit_code, running, tty0, setup_failure, ops, child_vars,
                   loop_vars, early_signal>>

(***************************************************************************)
(* The child shell.                                                        *)
(***************************************************************************)

\* The shell writes output to its terminal.
child_writes ==
    /\ child = "running"
    /\ ~pty_out
    /\ pty_out' = TRUE
    /\ UNCHANGED <<pc, exit_code, running, g_state, term_vars, tty0,
                   setup_failure, ops, bash_master_fd, child, wstatus,
                   loop_vars, early_signal>>

\* The shell ends (it exits, or a signal kills it); how it ended is what
\* waitpid reports when the parent collects it.
child_exits ==
    /\ child = "running"
    /\ child' = "exited"
    /\ UNCHANGED <<pc, exit_code, running, g_state, term_vars, tty0,
                   setup_failure, ops, bash_master_fd, pty_out, wstatus,
                   loop_vars, early_signal>>

Next ==
    \/ aish_init
    \/ aish_spawn_bash
    \/ aish_run_enter
    \/ loop_check
    \/ select_call
    \/ select_ready
    \/ select_error
    \/ select_eintr
    \/ eintr_check
    \/ aish_signal_handler
    \/ stdin_read_nothing
    \/ stdin_read_error
    \/ stdin_done
    \/ key_toggle
    \/ bash_keypress
    \/ chat_keypress_edit
    \/ chat_enter_begin
    \/ chat_enter_finish
    \/ bash_output
    \/ waitpid_probe
    \/ aish_run_teardown
    \/ aish_cleanup
    \/ child_writes
    \/ child_exits

Spec == Init /\ [][Next]_vars

TypeOK ==
    /\ pc \in {"main", "spawn", "run", "loop", "select_call", "select", "eintr",
               "stdin", "chat_api", "stdin_done", "bashout", "waitpid",
               "teardown", "cleanup", "exited"}
    /\ exit_code \in {EXIT_SUCCESS, EXIT_FAILURE}
    /\ running \in BOOLEAN
    /\ g_state \in BOOLEAN
    /\ term.current_mode \in {MODE_BASH, MODE_CHAT}
    /\ term.raw_mode_enabled \in BOOLEAN
    /\ bash_master_fd \in {NoFd, MasterFd}
    /\ child \in {"none", "running", "exited", "reaped"}
    /\ wstatus \in ExitKinds \cup {"none"}
    /\ setup_failure \subseteq InitFailures \cup SpawnFailures
                          \cup {ExecFailure, "tcgetattr", "tcsetattr"}
    /\ ops = <<>>
    /\ line_net = 0
    /\ early_signal \in BOOLEAN
    /\ relay.rd \in {"none", "data", "data_more", "error", "eof", "eagain"}
    /\ pty_out \in BOOLEAN
    /\ key \in Bytes \cup {NoKey}
    /\ restores \in Nat

(***************************************************************************)
(* The terminal controller on its own: the functions of terminal.c called  *)
(* in any order on one TerminalState, as their signatures allow.  ops is   *)
(* the log of the calls; the variables of main() stay as at start.         *)
(***************************************************************************)

main_vars == <<exit_code, running, g_state, bash_master_fd, child_vars, tty0,
               setup_failure, loop_vars, early_signal>>

Call(op, ok) == [op |-> op, ok |-> ok]

InitTerm ==
    /\ pc = "terminal_api"
    /\ exit_code = EXIT_FAILURE
    /\ running = FALSE
    /\ g_state = FALSE
    /\ term = terminal_init
    /\ tty \in InitialTermios
    /\ tty0 = tty
    /\ bash_master_fd = NoFd
    /\ child = "none"
    /\ pty_out = FALSE
    /\ input_buffer = FreshBuffer
    /\ input_pos = 0
    /\ read_fds = {}
    /\ key = NoKey
    /\ response = NoResponse
    /\ child_in = <<>>
    /\ ev = NoEvent
    /\ restores = 0
    /\ restore_applied = FALSE
    /\ eof_seen = FALSE
    /\ oob = FALSE
    /\ toggles = NoToggles
    /\ erase = NoErase
    /\ line_net = 0
    /\ early_signal = FALSE
    /\ setup_failure = {}
    /\ wstatus = "none"
    /\ ops = <<>>
    /\ relay = NoRelay

\* A call of terminal_enable_raw_mode.
call_enable_raw_mode ==
    /\ pc = "terminal_api"
    /\ Len(ops) < MaxOps
    /\ \E getOk \in BOOLEAN, setOk \in BOOLEAN :
        LET r == terminal_enable_raw_mode(term, tty, getOk, setOk) IN
        /\ term' = r.term
        /\ tty' = r.tty
        /\ ops' = Append(ops, Call("enable", r.ret))
    /\ UNCHANGED <<pc, restores, restore_applied, main_vars>>

\* A call of terminal_disable_raw_mode.
call_disable_raw_mode ==
    /\ pc = "terminal_api"
    /\ Len(ops) < MaxOps
    /\ \E setOk \in BOOLEAN :
        LET r == terminal_disable_raw_mode(term, tty, setOk) IN
        /\ term' = r.term
        /\ tty' = r.tty
        /\ restores' = restores + r.calls
        /\ restore_applied' = (restore_applied \/ r.applied)
        /\ ops' = Append(ops, Call("disable", r.calls = 0 \/ r.applied))
    /\ UNCHANGED <<pc, main_vars>>

\* A call of terminal_process_key with a key and a buffer position.
call_process_key ==
    /\ pc = "terminal_api"
    /\ Len(ops) < MaxOps
    /\ \E c \in {TAB_KEY, CharA}, pos \in {0, 1} :
        LET k == terminal_process_key(term, c, pos) IN
        /\ term' = k.term
        /\ ops' = Append(ops, Call("process_key", k.toggled))
    /\ UNCHANGED <<pc, tty, restores, restore_applied, main_vars>>

\* A call of terminal_cleanup.
call_cleanup ==
    /\ pc = "terminal_api"
    /\ Len(ops) < MaxOps
    /\ \E setOk \in BOOLEAN :
        LET r == terminal_cleanup(term, tty, setOk) IN
        /\ term' = r.term
        /\ tty' = r.tty
        /\ restores' = restores + r.calls
        /\ restore_applied' = (restore_applied \/ r.applied)
        /\ ops' = Append(ops, Call("cleanup", r.calls = 0 \/ r.applied))
    /\ UNCHANGED <<pc, main_vars>>

NextTerm ==
    \/ call_enable_raw_mode
    \/ call_disable_raw_mode
    \/ call_process_key
    \/ call_cleanup

SpecTerm == InitTerm /\ [][NextTerm]_vars

(***************************************************************************)
(* The keystroke dispatch of aish_run in bash mode on its own: the toggle  *)
(* branch and process_bash_keypress applied to any sequence of keys, with  *)
(* line_net counting what the child has on its current input line.  In     *)
(* chat mode the only key typed is the Tab that toggles back.              *)
(***************************************************************************)

\* The count n of bytes on the child's current line after the bytes out have
\* been written to its input: a line terminator starts a new line, a
\* backspace takes one byte off the line, any other byte is added to it.
RECURSIVE LineNet(_, _)
LineNet(n, out) ==
    IF out = <<>> THEN n
    ELSE LineNet(IF IsLineTerm(Head(out)) THEN 0
                 ELSE IF IsBackspace(Head(out))
                 THEN (IF n > 0 THEN n - 1 ELSE 0)
                 ELSE n + 1,
                 Tail(out))

line_fixed_vars == <<pc, exit_code, running, g_state, bash_master_fd,
                     child_vars, tty, tty0, restores, restore_applied,
                     setup_failure, ops, read_fds, response, eof_seen,
                     toggles, erase, relay, early_signal>>

InitLine ==
    /\ pc = "line_discipline"
    /\ exit_code = EXIT_FAILURE
    /\ running = TRUE
    /\ g_state = TRUE
    /\ term = [terminal_init EXCEPT !.raw_mode_enabled = TRUE]
    /\ tty \in InitialTermios
    /\ tty0 = tty
    /\ bash_master_fd = MasterFd
    /\ child = "running"
    /\ pty_out = FALSE
    /\ input_buffer = FreshBuffer
    /\ input_pos = 0
    /\ read_fds = {}
    /\ key = NoKey
    /\ response = NoResponse
    /\ child_in = <<>>
    /\ ev = NoEvent
    /\ restores = 0
    /\ restore_applied = FALSE
    /\ eof_seen = FALSE
    /\ oob = FALSE
    /\ toggles = NoToggles
    /\ erase = NoErase
    /\ line_net = 0
    /\ early_signal = FALSE
    /\ setup_failure = {}
    /\ wstatus = "none"
    /\ ops = <<>>
    /\ relay = NoRelay

\* The byte read is the toggle gesture: the toggle branch of aish_run.
line_key_toggle ==
    /\ pc = "line_discipline"
    /\ \E c \in Bytes, clearOk \in BOOLEAN, wOk \in BOOLEAN :
        LET k == terminal_process_key(term, c, input_pos)
            d == display_prompt(terminal_get_mode(k.term), clearOk, wOk)
        IN  /\ k.toggled
            /\ key' = c
            /\ term' = k.term
            /\ input_pos' = 0
            /\ child_in' = d.out
            /\ line_net' = LineNet(line_net, d.out)
            /\ ev' = Event("toggle", 0, PromptResult(d))
    /\ UNCHANGED <<line_fixed_vars, input_buffer, oob>>

\* The byte read is not the gesture and the mode is bash mode:
\* process_bash_keypress.  A line stops growing at MaxTyped bytes.
line_bash_keypress ==
    /\ pc = "line_discipline"
    /\ \E c \in Bytes, wOk \in BOOLEAN :
        LET k == terminal_process_key(term, c, input_pos)
            r == process_bash_keypress(c, input_buffer, input_pos, wOk)
        IN  /\ ~k.toggled
            /\ terminal_get_mode(k.term) = MODE_BASH
            /\ LineNet(line_net, r.out) <= MaxTyped
            /\ key' = c
            /\ input_buffer' = r.buf
            /\ input_pos' = r.pos
            /\ oob' = (oob \/ r.oob)
            /\ child_in' = r.out
            /\ line_net' = LineNet(line_net, r.out)
            /\ ev' = Event(IF r.ret THEN "bash_key" ELSE "bash_key_wfail",
                           0, "none")
    /\ UNCHANGED <<line_fixed_vars, term>>

NextLine ==
    \/ line_key_toggle
    \/ line_bash_keypress

SpecLine == InitLine /\ [][NextLine]_vars

(***************************************************************************)
(* Properties.                                                             *)
(***************************************************************************)

\* main's exit_code is EXIT_SUCCESS only once aish_run came back from its
\* teardown, which it reaches only with raw mode enabled.
LoopPcs == {"loop", "select_call", "select", "eintr", "stdin", "chat_api",
            "stdin_done",
            "bashout", "waitpid"}

\* C1: once terminal_enable_raw_mode succeeded, the saved configuration is
\* re-applied exactly once on every path by which the program ends: no
\* tcsetattr of it before the loop is left, one by aish_run's teardown, and
\* none by the terminal_cleanup of aish_cleanup.
C1_RestoredExactlyOnce ==
    /\ pc \in LoopPcs \cup {"teardown"} =>
            (restores = 0 /\ term.raw_mode_enabled)
    /\ (pc = "cleanup" /\ exit_code = EXIT_SUCCESS) =>
            (restores = 1 /\ ~term.raw_mode_enabled)
    /\ (pc = "exited" /\ exit_code = EXIT_SUCCESS) => restores = 1
    /\ exit_code = EXIT_FAILURE => restores = 0

\* The program ended after a SIGINT or SIGTERM (running cleared with the child
\* alive and no end of stream seen) and restored the terminal once.
C1_Witness ==
    /\ pc = "exited"
    /\ exit_code = EXIT_SUCCESS
    /\ restores = 1
    /\ ~running
    /\ child = "running"
    /\ ~eof_seen

\* C2: once a read of the child's output channel returned zero bytes, running
\* is cleared and the loop never starts another select(): it goes through
\* the liveness probe to the loop test and on to teardown, which has run by
\* the time aish_cleanup is reached.
C2_EofEndsLoop ==
    eof_seen =>
        /\ ~running
        /\ pc \in {"waitpid", "loop", "teardown", "cleanup", "exited"}
        /\ pc \in {"cleanup", "exited"} =>
                (restores = 1 /\ ~term.raw_mode_enabled)

C2_Witness ==
    /\ eof_seen
    /\ pc = "exited"
    /\ restores = 1

\* C3: a byte read in PassThrough mode and not consumed as the toggle
\* gesture is written to the child's input channel as it is and alone (when
\* the write succeeds; a failed write puts nothing there), and a Tab consumed
\* as the toggle gesture from PassThrough puts nothing there.
C3_PassThroughVerbatim ==
    /\ ev.kind = "bash_key" => child_in = <<key>>
    /\ ev.kind = "bash_key_wfail" => child_in = <<>>
    /\ (ev.kind = "toggle" /\ term.current_mode = MODE_CHAT) =>
            (key = TAB_KEY /\ child_in = <<>>)

\* A Tab typed in mid-line in PassThrough mode went to the child.
C3_Witness ==
    /\ ev.kind = "bash_key"
    /\ key = TAB_KEY
    /\ child_in = <<TAB_KEY>>

\* C4 as stated: a successful exchange (the command written in full) puts
\* exactly the command and one newline on the child's input channel, and the
\* mode is PassThrough.
C4_ExactlyCommandNewline ==
    (ev.kind = "submit_ok" /\ ev.cmd_n = Len(response.command)) =>
        /\ term.current_mode = MODE_BASH
        /\ child_in = response.command \o <<LF>>

\* C4, amended: a successful exchange whose writes succeed puts on the
\* child's input channel the bytes of the command that write() took, one
\* newline, and then one more newline written by display_prompt unless
\* display_prompt failed; the mode is PassThrough.
C4_CommandNewlineThenPrompt ==
    ev.kind = "submit_ok" =>
        /\ term.current_mode = MODE_BASH
        /\ response.is_valid
        /\ child_in = SubSeq(response.command, 1, ev.cmd_n) \o <<LF>>
                      \o (IF ev.prompt = "ok" THEN <<LF>> ELSE <<>>)

C4_Witness ==
    /\ ev.kind = "submit_ok"
    /\ response.command = CmdLs
    /\ child_in = CmdLs \o <<LF, LF>>
    /\ term.current_mode = MODE_BASH

FailedSubmit == {"submit_req_fail", "submit_invalid"}

\* C5: after a failed request or an invalid command has been handled the
\* mode is PassThrough.
C5_FailureRevertsToPassThrough ==
    ev.kind \in FailedSubmit => term.current_mode = MODE_BASH

\* C6: handling a failed request or an invalid command writes nothing to the
\* child's input channel, leaves running as it was and does not leave the
\* loop.
C6_FailureInjectsNothing ==
    [][(pc = "chat_api" /\ ev'.kind \in FailedSubmit) =>
            /\ child_in' = <<>>
            /\ running' = running
            /\ pc' = "stdin_done"]_vars

C6_Witness ==
    /\ ev.kind = "submit_invalid"
    /\ response.command = DangerPattern
    /\ child_in = <<>>
    /\ running

\* C7: after two toggles in succession, each made with input_pos zero, the
\* mode is the one before the first; and input_pos is zero after each.
C7_DoubleToggleIdentity ==
    /\ toggles.count >= 1 => input_pos = 0
    /\ (toggles.count = 2 /\ toggles.empty) =>
            term.current_mode = toggles.from

C7_Witness ==
    /\ toggles.count = 2
    /\ toggles.empty
    /\ toggles.from = MODE_CHAT
    /\ term.current_mode = MODE_CHAT

\* C8: in Assisted mode, n bytes typed from an empty buffer and then n
\* backspaces leave input_pos zero with nothing written to the child.
C8_TypeThenEraseEmpties ==
    (erase.phase = "erasing" /\ erase.erased = erase.typed) =>
        (input_pos = 0 /\ ~erase.wrote /\ term.current_mode = MODE_CHAT)

\* More bytes typed than the buffer holds, and as many backspaces.
C8_Witness ==
    /\ erase.phase = "erasing"
    /\ erase.erased = erase.typed
    /\ erase.typed > INPUT_BUFFER_SIZE - 1
    /\ input_pos = 0

\* C9: once terminal_disable_raw_mode has re-applied the saved configuration
\* the terminal has the configuration it had before terminal_enable_raw_mode.
C9_EnableDisableRestores ==
    restore_applied => tty = tty0

C9_Witness ==
    /\ restore_applied
    /\ pc = "cleanup"
    /\ tty0 = SevenBitTermios
    /\ tty = SevenBitTermios

MinOf(a, b) == IF a < b THEN a ELSE b

\* C10: input_pos never exceeds INPUT_BUFFER_SIZE - 1 and no store lands
\* outside input_buffer; no step changes a byte stored below input_pos; and
\* with the buffer full a further regular byte changes neither the buffer
\* nor input_pos.
C10_BufferBounded ==
    /\ [](input_pos \in 0 .. (INPUT_BUFFER_SIZE - 1) /\ ~oob)
    /\ [][/\ \A i \in 0 .. (MinOf(input_pos, input_pos') - 1) :
                input_buffer'[i] = input_buffer[i]
          /\ (/\ pc = "stdin"
              /\ pc' = "stdin_done"
              /\ key' # NoKey
              /\ IsRegular(key')
              /\ input_pos = INPUT_BUFFER_SIZE - 1) =>
                    (input_buffer' = input_buffer /\ input_pos' = input_pos)
         ]_vars

\* The buffer is full of what was typed first and a further byte was dropped.
C10_Witness ==
    /\ term.current_mode = MODE_CHAT
    /\ erase.phase = "typing"
    /\ erase.typed = INPUT_BUFFER_SIZE
    /\ input_pos = INPUT_BUFFER_SIZE - 1
    /\ input_buffer[0] = CharA
    /\ input_buffer[INPUT_BUFFER_SIZE - 2] = CharB

\* C11: a SIGINT or SIGTERM that arrives while the loop runs ends the loop at
\* its next check of running, with no further terminal input or child output
\* needed: the loop never waits in select() for input or output to arrive
\* (nothing pending from a live child) once a signal has cleared running.
C11_SignalEndsLoopWithoutInput ==
    (pc = "select" /\ child = "running" /\ ~pty_out) => running

\* The kinds of handling a byte gets when it is not taken as the toggle.
HandlerKinds == {"bash_key", "bash_key_wfail", "chat_edit", "chat_echo_failed",
                 "echo_newline_failed", "submit_empty", "submit_pending"}

\* C12: a byte read from stdin is consumed as the toggle gesture, and the
\* mode flipped, if and only if it is Tab and input_pos is 0 or the mode is
\* chat; every other byte (a Tab in bash mode with a non-empty buffer, any
\* non-Tab byte) leaves the mode as it was and goes on to its handler.
C12_ToggleIffTabAtGesture ==
    [][(pc = "stdin" /\ key' # NoKey) =>
        LET gesture == key' = TAB_KEY /\
                       (input_pos = 0 \/ term.current_mode = MODE_CHAT)
        IN  /\ (ev'.kind = "toggle") <=> gesture
            /\ gesture => term'.current_mode = FlipMode(term.current_mode)
            /\ ~gesture => /\ term'.current_mode = term.current_mode
                           /\ ev'.kind \in HandlerKinds]_vars

\* A Tab typed in chat mode after some text was taken as the toggle.
C12_Witness ==
    /\ ev.kind = "toggle"
    /\ key = TAB_KEY
    /\ toggles.count = 1
    /\ toggles.from = MODE_CHAT
    /\ ~toggles.empty
    /\ term.current_mode = MODE_BASH

\* C13: the mode changes only through terminal_process_key taking a Tab as
\* the toggle gesture, never on the submission path: every step that changes
\* current_mode is the handling of a toggle.
C13_ModeChangesOnlyByToggle ==
    [][term'.current_mode # term.current_mode =>
        (pc = "stdin" /\ key' = TAB_KEY /\ ev'.kind = "toggle")]_vars

\* C13 (amended): the mode changes only through terminal_process_key taking
\* a Tab as the toggle gesture, or through process_chat_input, which sets it
\* to MODE_BASH after it wrote a valid command and the newline to the child;
\* a submission that fails at any point leaves the mode as it was.
C13_ModeChangesByToggleOrSubmit ==
    [][term'.current_mode # term.current_mode =>
        \/ (pc = "stdin" /\ key' = TAB_KEY /\ ev'.kind = "toggle")
        \/ /\ pc = "chat_api"
           /\ ev'.kind = "submit_ok"
           /\ response'.is_valid
           /\ term.current_mode = MODE_CHAT
           /\ term'.current_mode = MODE_BASH]_vars

\* A submission that succeeded left the session in bash mode with no Tab
\* typed: the byte of the iteration is the line terminator.
C13_Witness ==
    /\ ev.kind = "submit_ok"
    /\ IsLineTerm(key)
    /\ term.current_mode = MODE_BASH
    /\ toggles = NoToggles

\* The failures of the start-up that main sees: those of aish_init and those
\* aish_spawn_bash reports.
ReportedSetupFailures == InitFailures \cup SpawnFailures

\* C14: when configuration loading fails, the API key is missing, the
\* terminal or API initialisation fails, forkpty fails or the master cannot
\* be made non-blocking, the program is on its way out with a failure status:
\* it is in aish_cleanup or has ended, exit_code is EXIT_FAILURE, raw mode
\* was never enabled (the terminal is as at start, nothing saved or restored)
\* and the loop was never entered (running never set, no byte handled).
C14_SetupFailureIsFatal ==
    (setup_failure \cap ReportedSetupFailures # {}) =>
        /\ pc \in {"cleanup", "exited"}
        /\ exit_code = EXIT_FAILURE
        /\ ~term.raw_mode_enabled
        /\ term.original_termios = ZeroTermios
        /\ tty = tty0
        /\ restores = 0
        /\ ~running
        /\ input_pos = 0 /\ key = NoKey /\ ev = NoEvent /\ child_in = <<>>

\* The master could not be made non-blocking: the program ended with the
\* shell forked, the descriptor closed and a failure status.
C14_Witness ==
    /\ setup_failure = {"fcntl_setfl"}
    /\ pc = "exited"
    /\ child = "running"
    /\ bash_master_fd = NoFd
    /\ exit_code = EXIT_FAILURE

\* C15: when execvp of the shell fails in the forked child, the spawn fails
\* fatally: the program ends with a failure exit status, and does not run
\* the loop to a successful exit.
C15_ExecFailureIsFatal ==
    (ExecFailure \in setup_failure /\ pc = "exited") =>
        exit_code = EXIT_FAILURE

\* C16: when the loop ended because the child exited (waitpid collected it,
\* with a zero or a non-zero status or killed by a signal, or the read of
\* its output returned end of stream), aish_run returns EXIT_SUCCESS and
\* that is the exit status of the program, whatever the child's status.
C16_ChildExitGivesSuccess ==
    /\ child = "reaped" => wstatus \in ExitKinds
    /\ ((child = "reaped" \/ eof_seen) /\ pc \in {"cleanup", "exited"}) =>
            exit_code = EXIT_SUCCESS

\* The shell was killed by a signal and the program ended with success.
C16_Witness ==
    /\ pc = "exited"
    /\ child = "reaped"
    /\ wstatus = "signaled"
    /\ setup_failure = {}
    /\ exit_code = EXIT_SUCCESS

\* The step is a call of terminal_disable_raw_mode.
DisableCalled ==
    /\ Len(ops') = Len(ops) + 1
    /\ ops'[Len(ops')].op = "disable"

\* C17: terminal_disable_raw_mode called while raw mode is not enabled (never
\* enabled, or disabled before) makes no tcsetattr and changes nothing: not
\* the terminal's configuration, not the TerminalState; and after any call of
\* it raw mode is not enabled, so a second call in a row is such a no-op.
C17_DisableIsIdempotent ==
    [][DisableCalled =>
        /\ ~term'.raw_mode_enabled
        /\ ~term.raw_mode_enabled =>
            /\ term' = term
            /\ tty' = tty
            /\ restores' = restores
            /\ restore_applied' = restore_applied]_vars

\* Raw mode was enabled, then terminal_disable_raw_mode was called twice; the
\* saved configuration was re-applied by the first call alone.
C17_Witness ==
    /\ Len(ops) = 3
    /\ ops[1] = Call("enable", TRUE)
    /\ ops[2].op = "disable"
    /\ ops[3].op = "disable"
    /\ restores = 1
    /\ tty = tty0

\* C18: when tcgetattr or tcsetattr fails in terminal_enable_raw_mode, it
\* returns failure with raw_mode_enabled false and the terminal's
\* configuration as it was, and aish_run returns EXIT_FAILURE without
\* entering the loop: running is never set, no byte is handled, and nothing
\* is re-applied to the terminal later.
C18_EnableFailureIsFatal ==
    (setup_failure \cap {"tcgetattr", "tcsetattr"} # {}) =>
        /\ pc \in {"cleanup", "exited"}
        /\ exit_code = EXIT_FAILURE
        /\ ~term.raw_mode_enabled
        /\ tty = tty0
        /\ restores = 0
        /\ ~running
        /\ key = NoKey /\ ev = NoEvent /\ child_in = <<>>

\* tcsetattr failed after tcgetattr had saved the configuration: the program
\* ended with a failure status and the terminal untouched.
C18_Witness ==
    /\ setup_failure = {"tcsetattr"}
    /\ pc = "exited"
    /\ term.original_termios = tty0
    /\ ~term.raw_mode_enabled
    /\ tty = tty0
    /\ exit_code = EXIT_FAILURE

\* The handlings in which process_chat_input got as far as writing the
\* command to the child.
InjectKinds == {"submit_ok", "submit_cmd_wfail", "submit_nl_wfail"}

\* C19: a command the service returned is written to the child only if
\* api_validate_command accepted it: after an exchange whose command is NULL,
\* empty or has "rm -rf /" in it, process_chat_input did not get to its
\* writes and nothing reached the child in that iteration.
C19_OnlyValidatedCommandInjected ==
    (response.made /\ (\/ ~response.has_command
                       \/ response.command = <<>>
                       \/ Contains(response.command, DangerPattern))) =>
        /\ ev.kind \notin InjectKinds
        /\ child_in = <<>>

\* A command with "rm -rf /" inside it came back and was not injected.
C19_Witness ==
    /\ response.made
    /\ response.ok
    /\ response.command = <<CharA>> \o DangerPattern
    /\ ev.kind = "submit_invalid"
    /\ child_in = <<>>

\* The handlings in which a write to the child's input channel failed: of a
\* keystroke in bash mode, of the injected command, of its newline.
ChildWriteFailed == {"bash_key_wfail", "submit_cmd_wfail", "submit_nl_wfail"}

\* C20: a failed write to the child's input channel aborts the loop: once
\* the handling of a byte had such a failure the loop is left (teardown is
\* next), and no other keystroke is read.
C20_ChildWriteFailureEndsLoop ==
    ev.kind \in ChildWriteFailed => pc \in {"teardown", "cleanup", "exited"}

\* C21: a read of the child's output channel that fails with an error other
\* than EAGAIN ends the loop (teardown is next); one that fails with EAGAIN
\* leaves the loop running: the iteration goes on to the liveness probe,
\* nothing is logged, nothing is written to the terminal, and no state of
\* the session changes.
C21_ReadErrorFatalEagainSilent ==
    [][pc = "bashout" =>
        /\ relay'.rd = "error" => pc' = "teardown"
        /\ relay'.rd = "eagain" =>
            /\ pc' = "waitpid"
            /\ ~relay'.logged
            /\ relay'.out = <<>>
            /\ UNCHANGED <<running, exit_code, term_vars, child_vars,
                           bash_master_fd, input_buffer, input_pos, eof_seen>>]_vars

\* A read of the pty master came back with EAGAIN and the loop went on.
C21_Witness ==
    /\ relay.rd = "eagain"
    /\ pc = "waitpid"
    /\ running
    /\ ~relay.logged

\* C22: every iteration whose select() returned a ready set performs the
\* waitpid(WNOHANG) probe, whatever was ready and whatever byte was read,
\* the toggle gesture included: the loop gets back to its head from such an
\* iteration only through the probe.
C22_EveryIterationProbes ==
    [][(pc \in {"stdin", "chat_api", "stdin_done", "bashout", "waitpid"}
        /\ pc' = "loop") => pc = "waitpid"]_vars

\* C23: in chat mode no typed byte goes to the child: the handling of a byte
\* read in chat mode that is not taken as the toggle (a character, a
\* backspace, the line terminator up to the flush of the line) writes
\* nothing to the child's input channel.
C23_ChatKeysNotForwarded ==
    [][(pc = "stdin" /\ term.current_mode = MODE_CHAT /\ key' # NoKey
        /\ ev'.kind # "toggle") =>
            /\ child_in' = <<>>
            /\ term'.current_mode = MODE_CHAT]_vars

\* A second character was typed in chat mode: it is in the buffer and
\* nothing went to the child.
C23_Witness ==
    /\ ev.kind = "chat_edit"
    /\ IsRegular(key)
    /\ term.current_mode = MODE_CHAT
    /\ input_pos = 2
    /\ input_buffer[1] = key
    /\ child_in = <<>>

\* C24: input_pos is zero after every line terminator handled, in either
\* mode, and after every mode toggle.
C24_PosZeroAfterLineAndToggle ==
    (pc \in {"stdin_done", "loop"} /\ key # NoKey
     /\ (IsLineTerm(key) \/ ev.kind = "toggle")) =>
        input_pos = 0

\* The step is a call of terminal_enable_raw_mode.
EnableCalled ==
    /\ Len(ops') = Len(ops) + 1
    /\ ops'[Len(ops')].op = "enable"

\* C25: whenever raw_mode_enabled is true, original_termios is the
\* configuration the terminal had before raw mode was first applied; it is
\* captured once: a call of terminal_enable_raw_mode made while raw mode is
\* active does not replace it.
C25_SavedConfigurationCapturedOnce ==
    /\ [](term.raw_mode_enabled => term.original_termios = tty0)
    /\ [][(EnableCalled /\ term.raw_mode_enabled) =>
            term'.original_termios = term.original_termios]_vars

\* C26: a chunk read from the child's output channel is written to the real
\* terminal's output unchanged: when aish_process_bash_output read a chunk
\* and reported no failure, the bytes that reached the terminal are the
\* bytes of the chunk, in order, none added, dropped or altered.
C26_ChunkRelayedVerbatim ==
    (pc = "waitpid" /\ relay.rd \in {"data", "data_more"}) =>
        relay.out = relay.chunk

\* C27: a SIGINT or SIGTERM that arrives while a translation exchange is in
\* progress does not cancel it: with running cleared the exchange still ends
\* with its response handled as usual (a command that came back valid gets
\* to the writes, and when they succeed the bytes write() took and the
\* newline are on the child's input channel and the mode is MODE_BASH), and
\* the loop is not left there: the iteration goes on, and the loop ends at
\* its next check of running.
C27_SignalDoesNotCancelExchange ==
    [][(pc = "chat_api" /\ ~running /\ pc' # pc) =>
        /\ pc' = "stdin_done"
        /\ ~running'
        /\ response'.made
        /\ (response'.ok /\ response'.is_valid) => ev'.kind \in InjectKinds
        /\ ev'.kind = "submit_ok" =>
            /\ SubSeq(child_in', 1, ev'.cmd_n + 1) =
                    SubSeq(response'.command, 1, ev'.cmd_n) \o <<LF>>
            /\ term'.current_mode = MODE_BASH]_vars

\* The signal came during the exchange, and the command was injected.
C27_Witness ==
    /\ pc = "stdin_done"
    /\ ~running
    /\ child = "running"
    /\ ~eof_seen
    /\ ev.kind = "submit_ok"
    /\ response.command = CmdLs
    /\ child_in = CmdLs \o <<LF, LF>>

\* C28: when select() is interrupted (EINTR) and running is still true, the
\* loop goes back to its head to wait again, having read nothing, written
\* nothing and changed no state; it leaves the loop on an interruption only
\* when running has been cleared.
C28_EintrRewaitsWhileRunning ==
    [][(pc = "eintr" /\ pc' # pc) =>
        /\ running => pc' = "loop"
        /\ ~running => pc' = "teardown"
        /\ UNCHANGED <<exit_code, running, g_state, term_vars, tty0,
                       bash_master_fd, child_vars, loop_vars, early_signal>>]_vars

\* select() was interrupted in mid-line with running still true.
C28_Witness ==
    /\ pc = "eintr"
    /\ running
    /\ child = "running"
    /\ input_pos = 1

\* C29: a failed echo of a character, or of the backspace erase sequence, to
\* the real terminal in chat mode does not end the session: running is as it
\* was, the loop is not left, and the iteration goes on as after any byte;
\* the edit of the line was made all the same.
C29_EchoFailureNotFatal ==
    [][(pc = "stdin" /\ ev'.kind = "chat_echo_failed") =>
        /\ running' = running
        /\ pc' = "stdin_done"
        /\ input_pos' = IF IsBackspace(key') THEN input_pos - 1
                        ELSE input_pos + 1
        /\ UNCHANGED <<exit_code, term_vars, child_vars, bash_master_fd>>]_vars

\* The echo of the erase sequence failed and the session goes on.
C29_Witness ==
    /\ ev.kind = "chat_echo_failed"
    /\ IsBackspace(key)
    /\ pc = "stdin_done"
    /\ running
    /\ input_pos = 0
    /\ term.current_mode = MODE_CHAT

\* C30: when the loop ended because the child exited (waitpid collected
\* it), everything the child wrote before it exited has been relayed to the
\* real terminal: no output of the child is still pending on the pty master.
C30_NoOutputLostAtExit ==
    (child = "reaped" /\ pc \in {"teardown", "cleanup", "exited"}) =>
        ~pty_out

\* C31 as stated: a toggle from chat mode to bash mode puts exactly one
\* newline on the child's input channel whenever the clear-line write to the
\* terminal succeeded, and a toggle from bash mode to chat mode puts nothing
\* there.
C31_ToggleNewlineWheneverCleared ==
    [][(pc = "stdin" /\ ev'.kind = "toggle") =>
        /\ (term.current_mode = MODE_CHAT /\ ev'.prompt # "clear_failed") =>
                child_in' = <<LF>>
        /\ term.current_mode = MODE_BASH => child_in' = <<>>]_vars

\* C31 (amended): a toggle from chat mode to bash mode puts exactly one
\* newline on the child's input channel when the clear-line write to the
\* terminal and the write of the newline both succeeded, and nothing when
\* either failed; a toggle from bash mode to chat mode puts nothing there;
\* the Tab is neither forwarded nor stored in the buffer, and input_pos is
\* zero afterwards.
C31_ToggleWritesOnlyPromptNewline ==
    [][(pc = "stdin" /\ ev'.kind = "toggle") =>
        /\ key' = TAB_KEY
        /\ input_buffer' = input_buffer
        /\ input_pos' = 0
        /\ term.current_mode = MODE_CHAT =>
            /\ term'.current_mode = MODE_BASH
            /\ ev'.prompt = "ok" => child_in' = <<LF>>
            /\ ev'.prompt \in {"clear_failed", "write_failed"} =>
                    child_in' = <<>>
        /\ term.current_mode = MODE_BASH =>
            /\ term'.current_mode = MODE_CHAT
            /\ child_in' = <<>>]_vars

\* A Tab in chat mode after some text: the mode is bash and the child got
\* the one newline of display_prompt.
C31_Witness ==
    /\ ev.kind = "toggle"
    /\ ev.prompt = "ok"
    /\ toggles.from = MODE_CHAT
    /\ ~toggles.empty
    /\ term.current_mode = MODE_BASH
    /\ child_in = <<LF>>
    /\ input_pos = 0

\* C32: in bash mode input_pos is zero exactly when the bytes forwarded to
\* the child since the last line terminator, each backspace cancelling one
\* earlier byte, net to none; so a Tab is taken as the toggle gesture from
\* bash mode only when the child's current line is empty.
C32_PosZeroIffLineEmpty ==
    /\ [](term.current_mode = MODE_BASH => (input_pos = 0 <=> line_net = 0))
    /\ [][(ev'.kind = "toggle" /\ term.current_mode = MODE_BASH) =>
            line_net = 0]_vars

\* C33: a line terminator typed in chat mode with input_pos zero starts no
\* exchange with the API, writes nothing to the child's input channel, and
\* leaves the mode chat mode and input_pos zero.
C33_EmptyLineIsNoSubmission ==
    [][(/\ pc = "stdin"
        /\ term.current_mode = MODE_CHAT
        /\ input_pos = 0
        /\ key' # key
        /\ IsLineTerm(key')) =>
            /\ pc' # "chat_api"
            /\ response' = NoResponse
            /\ child_in' = <<>>
            /\ term'.current_mode = MODE_CHAT
            /\ input_pos' = 0]_vars

\* An empty line was entered in chat mode and its newline echoed.
C33_Witness ==
    /\ ev.kind = "submit_empty"
    /\ IsLineTerm(key)
    /\ term.current_mode = MODE_CHAT
    /\ input_pos = 0
    /\ child_in = <<>>
    /\ response = NoResponse
    /\ pc = "stdin_done"

\* C34: a signal handled after aish_init installed the handler and before
\* aish_run set running has no lasting effect: aish_run sets running to
\* true all the same, and the first test of the loop, if no further signal
\* comes, enters the first iteration with the state of a start without
\* signal.
C34_EarlySignalHasNoEffect ==
    /\ [](early_signal =>
            /\ pc \in {"spawn", "run", "loop", "cleanup", "exited"}
            /\ pc \in {"spawn", "run"} => ~running
            /\ pc = "loop" => input_pos = 0 /\ term.raw_mode_enabled)
    /\ [][(early_signal /\ pc = "run" /\ pc' = "loop") => running']_vars
    /\ [][(early_signal /\ pc = "loop" /\ running /\ pc' # pc) =>
            (pc' = "select_call" /\ running')]_vars

\* aish_run is about to test running for the first time, after a signal
\* that came before it set the flag.
C34_Witness ==
    /\ early_signal
    /\ pc = "loop"
    /\ running
    /\ child = "running"

\* C35: once raw mode is enabled aish_run returns EXIT_SUCCESS however the
\* loop ends: every way out of the loop (a failed select, stdin read, child
\* read, stdout write or waitpid, a signal, the child's end) leads to the
\* teardown, which returns EXIT_SUCCESS; aish_run returns EXIT_FAILURE
\* exactly when terminal_enable_raw_mode failed.
C35_RunSucceedsOnceRawModeEnabled ==
    /\ []((pc \in {"cleanup", "exited"}
                /\ setup_failure \cap ReportedSetupFailures = {}) =>
            (exit_code = EXIT_FAILURE <=>
                setup_failure \cap {"tcgetattr", "tcsetattr"} # {}))
    /\ [][(pc \in LoopPcs /\ pc' \notin LoopPcs) => pc' = "teardown"]_vars
    /\ [][(pc = "teardown" /\ pc' # pc) =>
            (pc' = "cleanup" /\ exit_code' = EXIT_SUCCESS)]_vars

\* The read of stdin failed, the loop was left with the child alive and
\* running still set, and the program ended with success.
C35_Witness ==
    /\ pc = "exited"
    /\ ev.kind = "read_error"
    /\ running
    /\ child = "running"
    /\ wstatus = "none"
    /\ exit_code = EXIT_SUCCESS

\* The step is a call of terminal_cleanup.
CleanupCalled ==
    /\ Len(ops') = Len(ops) + 1
    /\ ops'[Len(ops')].op = "cleanup"

\* The number of calls of terminal_enable_raw_mode that returned true.
SuccessfulEnables ==
    Cardinality({i \in 1 .. Len(ops) : ops[i] = Call("enable", TRUE)})

\* C36: a call of terminal_disable_raw_mode made with raw mode enabled makes
\* one tcsetattr of the saved configuration and clears raw_mode_enabled
\* whether or not that tcsetattr succeeded; so the saved configuration is
\* re-applied at most once for each successful enable, and a terminal_cleanup
\* that follows a failed restoration makes no further tcsetattr.
C36_FailedRestoreNotRetried ==
    /\ [](restores <= SuccessfulEnables)
    /\ [][(DisableCalled /\ term.raw_mode_enabled) =>
            /\ ~term'.raw_mode_enabled
            /\ restores' = restores + 1]_vars
    /\ [][(CleanupCalled /\ ~term.raw_mode_enabled) =>
            /\ restores' = restores
            /\ tty' = tty
            /\ ~term'.raw_mode_enabled]_vars

\* Raw mode was enabled, the restoration by terminal_disable_raw_mode failed
\* and terminal_cleanup came after it: one tcsetattr of the saved
\* configuration was made and the terminal is still in raw mode.
C36_Witness ==
    /\ Len(ops) = 3
    /\ ops[1] = Call("enable", TRUE)
    /\ ops[2] = Call("disable", FALSE)
    /\ ops[3].op = "cleanup"
    /\ restores = 1
    /\ ~restore_applied
    /\ ~term.raw_mode_enabled
    /\ tty # tty0

====
